---- MODULE Spec2Model ----
(***************************************************************************)
(* Model of the NWTech license catalog and ordering backend (main.py,      *)
(* schemas.py).  The document store holds two collections, the catalog     *)
(* ("licenseproduct") and the orders ("licenseorder"); every request       *)
(* handler is an action over them.                                         *)
(*                                                                         *)
(* Money is counted in units of 1/200 dollar.  Catalog prices are drawn    *)
(* from multiples of 1/8 dollar (25 units) and whole dollars, for which    *)
(* binary floating point arithmetic is exact, so that the float products   *)
(* and sums of the handler are the integer products and sums here, and     *)
(* round(x, 2) is rounding to a multiple of 2 units with ties to even.     *)
(*                                                                         *)
(* A JSON body is a record whose DOMAIN holds the fields the client sent.  *)
(* An e-mail address is a sequence of tokens.                              *)
(***************************************************************************)
EXTENDS Integers, Sequences, FiniteSets, TLC

VARIABLES
  db,        \* TRUE when the store handle is configured (db is not None)
  catalog,   \* the "licenseproduct" collection, in insertion order
  orders,    \* the "licenseorder" collection, in insertion order
  resp,      \* the response to the last request
  lookups,   \* the number of find_one calls the last request issued
  pc,        \* concurrent requests: where each one is in its handler
  local      \* concurrent requests: the handler's local variables

vars == <<db, catalog, orders, resp, lookups, pc, local>>

\* ---------------------------------------------------------------- bounds
MaxOrders == 2
NumProcs == 2

Procs == 1..NumProcs

\* ------------------------------------------------------------ money, text
Dollars(n) == n * 200
Eighths(k) == k * 25

\* round(total, 2) on a float that is an exact multiple of 1/8: to the
\* nearest cent, a tie going to the even cent
round2(x) ==
  IF x % 2 = 0 THEN x
  ELSE IF ((x - 1) \div 2) % 2 = 0 THEN x - 1 ELSE x + 1

\* EmailStr: exactly one "@", a non-empty local part, a domain with an inner dot
ValidEmail(e) ==
  /\ Cardinality({i \in 1..Len(e) : e[i] = "@"}) = 1
  /\ \E a \in 2..Len(e) :
       /\ e[a] = "@"
       /\ \E d \in (a + 2)..(Len(e) - 1) : e[d] = "."
       /\ e[a + 1] # "."

GoodEmail == <<"ann", "@", "corp", ".", "com">>
BadEmail == <<"ann", "corp">>
Emails == {GoodEmail, BadEmail}

\* ---------------------------------------------------------------- schemas
\* LicenseProduct: name and sku required, vendor defaults to "Saad", price >= 0
LicenseProductValid(p) ==
  /\ {"name", "sku", "price"} \subseteq DOMAIN p
  /\ p.price >= 0

LicenseProduct(p) ==
  [name |-> p.name, sku |-> p.sku,
   vendor |-> IF "vendor" \in DOMAIN p THEN p.vendor ELSE "Saad",
   price |-> p.price]

\* OrderItem: all five fields required, quantity >= 1, unit_price, subtotal >= 0
OrderItemValid(i) ==
  /\ {"sku", "name", "quantity", "unit_price", "subtotal"} \subseteq DOMAIN i
  /\ i.quantity >= 1
  /\ i.unit_price >= 0
  /\ i.subtotal >= 0

\* CreateOrder (request body): contact_name and contact_email are plain
\* strings, items is a list of OrderItem of any length
CreateOrderValid(o) ==
  /\ {"contact_name", "contact_email", "items"} \subseteq DOMAIN o
  /\ \A k \in 1..Len(o.items) : OrderItemValid(o.items[k])

\* LicenseOrder (stored document): contact_email is an EmailStr, total >= 0
LicenseOrderValid(d) ==
  /\ ValidEmail(d.contact_email)
  /\ \A k \in 1..Len(d.items) : OrderItemValid(d.items[k])
  /\ d.total_amount >= 0

\* ------------------------------------------------------------ store access
\* find_one({"sku": sku}): position of the first document with that sku, 0 for None
find_one(coll, sku) ==
  LET hits == {i \in 1..Len(coll) : coll[i].sku = sku}
  IN IF hits = {} THEN 0 ELSE CHOOSE i \in hits : \A j \in hits : i <= j

count_documents(coll) == Len(coll)

\* create_document: one insert at the end of the collection; the id it returns
\* is the position of the new document
create_document(coll, doc) == Append(coll, doc)

\* get_documents(collection, filter_dict): the documents whose fields equal
\* those of the filter, in store order
get_documents(coll, query) ==
  LET Match(d) == \A f \in DOMAIN query : d[f] = query[f]
  IN SelectSeq(coll, Match)

\* ----------------------------------------------------------------- inputs
ProductInputs ==
  { [name |-> "Alpha", sku |-> "A", price |-> Eighths(1)],
    [name |-> "Alpha2", sku |-> "A", vendor |-> "Other", price |-> Eighths(3)],
    [name |-> "Clash", sku |-> "SAAD-PRO-1Y", price |-> Eighths(5)],
    [name |-> "Neg", sku |-> "A", price |-> 0 - Eighths(1)],
    [sku |-> "A", price |-> Eighths(1)] }

\* request items: what a client may send for one line of an order
ItemPro == [sku |-> "SAAD-PRO-1Y", quantity |-> 2, name |-> "Bogus", unit_price |-> 2, subtotal |-> 0]
ItemA == [sku |-> "A", quantity |-> 1, name |-> "Bogus", unit_price |-> 2, subtotal |-> 0]
ItemBare == [sku |-> "A", quantity |-> 2]
ItemNope == [sku |-> "NOPE", quantity |-> 1, name |-> "Bogus", unit_price |-> 2, subtotal |-> 0]
ItemZero == [sku |-> "A", quantity |-> 0, name |-> "Bogus", unit_price |-> 2, subtotal |-> 0]

ItemLists ==
  { <<>>, <<ItemPro>>, <<ItemA>>, <<ItemBare>>, <<ItemNope>>, <<ItemZero>>,
    <<ItemA, ItemNope>>, <<ItemNope, ItemA>>, <<ItemA, ItemPro>>,
    <<ItemPro, ItemBare>>, <<ItemPro, ItemA, ItemA>>, <<ItemA, ItemNope, ItemPro>> }

OrderInputs ==
  {[contact_name |-> "Ann", contact_email |-> e, items |-> its] :
      e \in Emails, its \in ItemLists}
  \cup {[contact_email |-> GoodEmail, items |-> <<>>]}

\* ------------------------------------------------------------------ state
Idle == [at |-> "idle"]

NoResp == [op |-> "none", status |-> 0]

Init ==
  /\ db \in BOOLEAN
  /\ catalog = <<>>
  /\ orders = <<>>
  /\ resp = NoResp
  /\ lookups = 0
  /\ pc = [p \in Procs |-> "idle"]
  /\ local = [p \in Procs |-> Idle]

Unavailable(op) == [op |-> op, status |-> 500, detail |-> "Database not configured"]

Unprocessable(op) == [op |-> op, status |-> 422, detail |-> "validation error"]

\* ------------------------------------------------------- catalog handlers
read_root ==
  /\ resp' = [op |-> "read_root", status |-> 200]
  /\ lookups' = 0
  /\ UNCHANGED <<db, catalog, orders, pc, local>>

\* the requests drawn here carry no q, so the filter is {} or {"vendor": vendor}
list_licenses(vendor) ==
  /\ resp' = IF ~db THEN Unavailable("list_licenses")
             ELSE LET query == IF vendor # "" THEN "vendor" :> vendor ELSE <<>>
                  IN [op |-> "list_licenses", status |-> 200,
                      items |-> get_documents(catalog, query)]
  /\ lookups' = 0
  /\ UNCHANGED <<db, catalog, orders, pc, local>>

\* create_license without the find_one check
create_license_unchecked(product) ==
  /\ IF ~LicenseProductValid(product)
       THEN resp' = Unprocessable("create_license") /\ catalog' = catalog
     ELSE IF ~db
       THEN resp' = Unavailable("create_license") /\ catalog' = catalog
     ELSE /\ catalog' = create_document(catalog, LicenseProduct(product))
          /\ resp' = [op |-> "create_license", status |-> 201,
                      id |-> Len(catalog) + 1]
  /\ lookups' = 0
  /\ UNCHANGED <<db, orders, pc, local>>

create_license(product) ==
  /\ IF ~LicenseProductValid(product)
       THEN resp' = Unprocessable("create_license") /\ catalog' = catalog
     ELSE IF ~db
       THEN resp' = Unavailable("create_license") /\ catalog' = catalog
     ELSE IF find_one(catalog, product.sku) # 0
       THEN /\ resp' = [op |-> "create_license", status |-> 400,
                        detail |-> "SKU already exists"]
            /\ catalog' = catalog
     ELSE /\ catalog' = create_document(catalog, LicenseProduct(product))
          /\ resp' = [op |-> "create_license", status |-> 201,
                      id |-> Len(catalog) + 1]
  /\ lookups' = IF LicenseProductValid(product) /\ db THEN 1 ELSE 0
  /\ UNCHANGED <<db, orders, pc, local>>

samples ==
  << [name |-> "Saad Basic", sku |-> "SAAD-BASIC-1Y", vendor |-> "Saad", price |-> Dollars(99)],
     [name |-> "Saad Pro", sku |-> "SAAD-PRO-1Y", vendor |-> "Saad", price |-> Dollars(249)],
     [name |-> "Saad Enterprise", sku |-> "SAAD-ENT-1Y", vendor |-> "Saad", price |-> Dollars(599)] >>

RECURSIVE InsertAll(_, _)
InsertAll(coll, docs) ==
  IF docs = <<>> THEN coll
  ELSE InsertAll(create_document(coll, Head(docs)), Tail(docs))

\* seed_licenses without the count check
seed_licenses_always ==
  /\ IF ~db
       THEN resp' = Unavailable("seed_licenses") /\ catalog' = catalog
     ELSE /\ catalog' = InsertAll(catalog, samples)
          /\ resp' = [op |-> "seed_licenses", status |-> 200,
                      inserted |-> Len(samples)]
  /\ lookups' = 0
  /\ UNCHANGED <<db, orders, pc, local>>

seed_licenses ==
  /\ IF ~db
       THEN resp' = Unavailable("seed_licenses") /\ catalog' = catalog
     ELSE IF count_documents(catalog) > 0
       THEN /\ resp' = [op |-> "seed_licenses", status |-> 200,
                        message |-> "Catalog already has items",
                        count |-> count_documents(catalog)]
            /\ catalog' = catalog
     ELSE /\ catalog' = InsertAll(catalog, samples)
          /\ resp' = [op |-> "seed_licenses", status |-> 200,
                      inserted |-> Len(samples)]
  /\ lookups' = 0
  /\ UNCHANGED <<db, orders, pc, local>>

\* --------------------------------------------------------- order handlers
\* the loop trusting the unit_price of the request
RECURSIVE price_items_trusting(_, _, _, _)
price_items_trusting(cat, items, total, validated_items) ==
  IF items = <<>>
    THEN [found |-> TRUE, total |-> total, items |-> validated_items,
          lookups |-> Len(validated_items)]
  ELSE LET item == Head(items)
           prod == find_one(cat, item.sku)
       IN IF prod = 0
            THEN [found |-> FALSE, sku |-> item.sku,
                  lookups |-> Len(validated_items) + 1]
          ELSE LET unit_price == item.unit_price
                   name == cat[prod].name
                   subtotal == unit_price * item.quantity
               IN price_items_trusting(cat, Tail(items), total + subtotal,
                    Append(validated_items,
                      [sku |-> item.sku, name |-> name, quantity |-> item.quantity,
                       unit_price |-> unit_price, subtotal |-> subtotal]))

\* the loop reporting the last unknown sku after pricing the items it found
RECURSIVE price_items_late(_, _, _, _)
price_items_late(cat, items, total, validated_items) ==
  IF items = <<>>
    THEN [found |-> TRUE, total |-> total, items |-> validated_items,
          lookups |-> Len(validated_items)]
  ELSE LET item == Head(items)
           prod == find_one(cat, item.sku)
           rest == price_items_late(cat, Tail(items), total, validated_items)
       IN IF prod = 0
            THEN IF rest.found
                   THEN [found |-> FALSE, sku |-> item.sku, lookups |-> Len(items)]
                 ELSE [found |-> FALSE, sku |-> rest.sku, lookups |-> Len(items)]
          ELSE LET unit_price == cat[prod].price
                   name == cat[prod].name
                   subtotal == unit_price * item.quantity
               IN price_items_late(cat, Tail(items), total + subtotal,
                    Append(validated_items,
                      [sku |-> item.sku, name |-> name, quantity |-> item.quantity,
                       unit_price |-> unit_price, subtotal |-> subtotal]))

\* the loop of place_order over order.items: the first item whose sku has no
\* catalog entry ends it, otherwise every item is re-priced from the catalog
RECURSIVE price_items(_, _, _, _)
price_items(cat, items, total, validated_items) ==
  IF items = <<>>
    THEN [found |-> TRUE, total |-> total, items |-> validated_items,
          lookups |-> Len(validated_items)]
  ELSE LET item == Head(items)
           prod == find_one(cat, item.sku)
       IN IF prod = 0
            THEN [found |-> FALSE, sku |-> item.sku,
                  lookups |-> Len(validated_items) + 1]
          ELSE LET unit_price == cat[prod].price
                   name == cat[prod].name
                   subtotal == unit_price * item.quantity
               IN price_items(cat, Tail(items), total + subtotal,
                    Append(validated_items,
                      [sku |-> item.sku, name |-> name, quantity |-> item.quantity,
                       unit_price |-> unit_price, subtotal |-> subtotal]))

\* the order document with the total left unrounded
order_doc_unrounded(order, priced) ==
  [contact_name |-> order.contact_name,
   contact_email |-> order.contact_email,
   items |-> priced.items,
   total_amount |-> priced.total,
   vendor |-> "Saad",
   status |-> "pending"]

order_doc(order, priced) ==
  [contact_name |-> order.contact_name,
   contact_email |-> order.contact_email,
   items |-> priced.items,
   total_amount |-> round2(priced.total),
   vendor |-> "Saad",
   status |-> "pending"]

\* place_order persisting the items priced so far when a sku is unknown
place_order_partial(order) ==
  /\ IF ~CreateOrderValid(order)
       THEN resp' = Unprocessable("place_order") /\ orders' = orders
     ELSE IF ~db
       THEN resp' = Unavailable("place_order") /\ orders' = orders
     ELSE LET priced == price_items(catalog, order.items, 0, <<>>)
              upto == IF priced.found THEN Len(order.items) ELSE priced.lookups - 1
              partial == price_items(catalog, SubSeq(order.items, 1, upto), 0, <<>>)
          IN IF ~LicenseOrderValid(order_doc(order, partial))
               THEN /\ resp' = [op |-> "place_order", status |-> 500,
                                detail |-> "Internal Server Error"]
                    /\ orders' = orders
             ELSE /\ Len(orders) < MaxOrders
                  /\ orders' = create_document(orders, order_doc(order, partial))
                  /\ resp' = IF priced.found
                               THEN [op |-> "place_order", status |-> 201,
                                     order_id |-> Len(orders) + 1,
                                     total |-> order_doc(order, partial).total_amount,
                                     order_status |-> "pending"]
                             ELSE [op |-> "place_order", status |-> 404,
                                   detail |-> <<"SKU not found: ", priced.sku>>]
  /\ lookups' = IF CreateOrderValid(order) /\ db
                  THEN price_items(catalog, order.items, 0, <<>>).lookups
                ELSE 0
  /\ UNCHANGED <<db, catalog, pc, local>>

place_order(order) ==
  /\ IF ~CreateOrderValid(order)
       THEN resp' = Unprocessable("place_order") /\ orders' = orders
     ELSE IF ~db
       THEN resp' = Unavailable("place_order") /\ orders' = orders
     ELSE LET priced == price_items(catalog, order.items, 0, <<>>)
          IN IF ~priced.found
               THEN /\ resp' = [op |-> "place_order", status |-> 404,
                                detail |-> <<"SKU not found: ", priced.sku>>]
                    /\ orders' = orders
             ELSE IF ~LicenseOrderValid(order_doc(order, priced))
               \* the ValidationError of LicenseOrder(...) is not caught
               THEN /\ resp' = [op |-> "place_order", status |-> 500,
                                detail |-> "Internal Server Error"]
                    /\ orders' = orders
             ELSE /\ Len(orders) < MaxOrders
                  /\ orders' = create_document(orders, order_doc(order, priced))
                  /\ resp' = [op |-> "place_order", status |-> 201,
                              order_id |-> Len(orders) + 1,
                              total |-> order_doc(order, priced).total_amount,
                              order_status |-> order_doc(order, priced).status]
  /\ lookups' = IF CreateOrderValid(order) /\ db
                  THEN price_items(catalog, order.items, 0, <<>>).lookups
                ELSE 0
  /\ UNCHANGED <<db, catalog, pc, local>>

list_orders(email) ==
  /\ resp' = IF ~db THEN Unavailable("list_orders")
             ELSE LET query == IF email # <<>>
                                 THEN ("vendor" :> "Saad") @@ ("contact_email" :> email)
                               ELSE "vendor" :> "Saad"
                  IN [op |-> "list_orders", status |-> 200,
                      orders |-> get_documents(orders, query)]
  /\ lookups' = 0
  /\ UNCHANGED <<db, catalog, orders, pc, local>>

\* ------------------------------------------------ sequential specification
\* one request at a time, each handler running to completion
Next ==
  \/ read_root
  \/ \E vendor \in {"", "Saad", "Other"} : list_licenses(vendor)
  \/ \E product \in ProductInputs : create_license(product)
  \/ seed_licenses
  \/ \E order \in OrderInputs : place_order(order)
  \/ \E email \in {<<>>, GoodEmail} : list_orders(email)

Spec == Init /\ [][Next]_vars

\* ------------------------------------------------ concurrent specification
\* create_license and seed_licenses of several requests in flight at once:
\* a handler is split where it calls the store, each call being atomic
create_license_check(p, product) ==
  /\ pc[p] = "idle"
  /\ IF ~LicenseProductValid(product)
       THEN /\ resp' = Unprocessable("create_license")
            /\ UNCHANGED <<pc, local>>
     ELSE IF ~db
       THEN /\ resp' = Unavailable("create_license")
            /\ UNCHANGED <<pc, local>>
     ELSE IF find_one(catalog, product.sku) # 0
       THEN /\ resp' = [op |-> "create_license", status |-> 400,
                        detail |-> "SKU already exists"]
            /\ UNCHANGED <<pc, local>>
     ELSE /\ pc' = [pc EXCEPT ![p] = "create_license_insert"]
          /\ local' = [local EXCEPT ![p] = [product |-> LicenseProduct(product)]]
          /\ resp' = resp
  /\ lookups' = IF LicenseProductValid(product) /\ db THEN 1 ELSE 0
  /\ UNCHANGED <<db, catalog, orders>>

\* the insert step checking the sku again at write time
create_license_insert_rechecked(p) ==
  /\ pc[p] = "create_license_insert"
  /\ IF find_one(catalog, local[p].product.sku) # 0
       THEN /\ catalog' = catalog
            /\ resp' = [op |-> "create_license", status |-> 400,
                        detail |-> "SKU already exists"]
     ELSE /\ catalog' = create_document(catalog, local[p].product)
          /\ resp' = [op |-> "create_license", status |-> 201, id |-> Len(catalog) + 1]
  /\ pc' = [pc EXCEPT ![p] = "idle"]
  /\ local' = [local EXCEPT ![p] = Idle]
  /\ UNCHANGED <<db, orders, lookups>>

create_license_insert(p) ==
  /\ pc[p] = "create_license_insert"
  /\ catalog' = create_document(catalog, local[p].product)
  /\ resp' = [op |-> "create_license", status |-> 201, id |-> Len(catalog) + 1]
  /\ pc' = [pc EXCEPT ![p] = "idle"]
  /\ local' = [local EXCEPT ![p] = Idle]
  /\ UNCHANGED <<db, orders, lookups>>

seed_licenses_count(p) ==
  /\ pc[p] = "idle"
  /\ IF ~db
       THEN /\ resp' = Unavailable("seed_licenses")
            /\ UNCHANGED <<pc, local>>
     ELSE IF count_documents(catalog) > 0
       THEN /\ resp' = [op |-> "seed_licenses", status |-> 200,
                        message |-> "Catalog already has items",
                        count |-> count_documents(catalog)]
            /\ UNCHANGED <<pc, local>>
     ELSE /\ pc' = [pc EXCEPT ![p] = "seed_licenses_insert"]
          /\ local' = [local EXCEPT ![p] = [inserted |-> 0]]
          /\ resp' = resp
  /\ lookups' = 0
  /\ UNCHANGED <<db, catalog, orders>>

\* one turn of the loop over samples; the last turn also returns
seed_licenses_insert(p) ==
  /\ pc[p] = "seed_licenses_insert"
  /\ catalog' = create_document(catalog, samples[local[p].inserted + 1])
  /\ IF local[p].inserted + 1 < Len(samples)
       THEN /\ local' = [local EXCEPT ![p] = [inserted |-> local[p].inserted + 1]]
            /\ UNCHANGED <<pc, resp>>
     ELSE /\ resp' = [op |-> "seed_licenses", status |-> 200,
                      inserted |-> local[p].inserted + 1]
          /\ pc' = [pc EXCEPT ![p] = "idle"]
          /\ local' = [local EXCEPT ![p] = Idle]
  /\ UNCHANGED <<db, orders, lookups>>

ConcNext ==
  \E p \in Procs :
    \/ \E product \in ProductInputs : create_license_check(p, product)
    \/ create_license_insert(p)
    \/ seed_licenses_count(p)
    \/ seed_licenses_insert(p)

ConcSpec == Init /\ [][ConcNext]_vars

\* ================================================================ claims

SampleSkus == {samples[i].sku : i \in 1..Len(samples)}

NoDuplicateSku ==
  \A i, j \in 1..Len(catalog) : catalog[i].sku = catalog[j].sku => i = j

IsPrefix(s, t) == Len(s) <= Len(t) /\ \A i \in 1..Len(s) : s[i] = t[i]

RECURSIVE SumSubtotals(_)
SumSubtotals(items) ==
  IF items = <<>> THEN 0 ELSE Head(items).subtotal + SumSubtotals(Tail(items))

Missing(cat, items) == {k \in 1..Len(items) : find_one(cat, items[k].sku) = 0}

FirstMissing(cat, items) ==
  CHOOSE k \in Missing(cat, items) : \A j \in Missing(cat, items) : k <= j

\* C1: in a sequential execution no two catalog entries share a sku, and a
\* create-product whose sku is already present answers 400 "SKU already
\* exists" and leaves the catalog as it was
C1_SkuUnique ==
  [][ /\ NoDuplicateSku'
      /\ \A product \in ProductInputs :
           ( /\ create_license(product)
             /\ db
             /\ LicenseProductValid(product)
             /\ \E i \in 1..Len(catalog) : catalog[i].sku = product.sku )
           => ( /\ resp'.status = 400
                /\ resp'.detail = "SKU already exists"
                /\ catalog' = catalog ) ]_vars

\* a create of a present sku was refused on a catalog that seed and create
\* have both filled
C1_Witness ==
  /\ resp.op = "create_license"
  /\ resp.status = 400
  /\ Len(catalog) > Len(samples)

\* C2: a place order naming a sku with no catalog entry answers 404 with the
\* first such sku in submission order and leaves the orders as they were,
\* however many earlier items were found
C2_AllOrNothing ==
  [][ \A order \in OrderInputs :
        ( /\ place_order(order)
          /\ db
          /\ CreateOrderValid(order)
          /\ Missing(catalog, order.items) # {} )
        => ( /\ resp'.status = 404
             /\ resp'.detail =
                  <<"SKU not found: ",
                    order.items[FirstMissing(catalog, order.items)].sku>>
             /\ orders' = orders ) ]_vars

\* a 404 for NOPE that came after an item was found (two lookups), with an
\* order already persisted
C2_Witness ==
  /\ resp.op = "place_order"
  /\ resp.status = 404
  /\ resp.detail[2] = "NOPE"
  /\ lookups = 2
  /\ orders # <<>>

\* C3: every item of every persisted order carries the name and price of the
\* catalog entry found for its sku, and subtotal = unit_price * quantity
C3_PricedFromCatalog ==
  \A k \in 1..Len(orders) :
    \A j \in 1..Len(orders[k].items) :
      LET it == orders[k].items[j]
          prod == find_one(catalog, it.sku)
      IN /\ prod # 0
         /\ it.name = catalog[prod].name
         /\ it.unit_price = catalog[prod].price
         /\ it.subtotal = it.unit_price * it.quantity

\* the scenario of the specification: two SAAD-PRO-1Y at 249.0, the client
\* having sent a bogus name and unit_price
C3_Witness ==
  \E k \in 1..Len(orders) :
    \E j \in 1..Len(orders[k].items) :
      /\ orders[k].items[j].sku = "SAAD-PRO-1Y"
      /\ orders[k].items[j].name = "Saad Pro"
      /\ orders[k].items[j].unit_price = Dollars(249)
      /\ orders[k].items[j].subtotal = Dollars(498)

\* C4: total_amount of every persisted order is the sum of its items'
\* subtotals rounded to 2 decimals, and the total returned is the persisted one
C4_TotalRounded ==
  /\ \A k \in 1..Len(orders) :
       orders[k].total_amount = round2(SumSubtotals(orders[k].items))
  /\ (resp.op = "place_order" /\ resp.status = 201)
       => resp.total = orders[resp.order_id].total_amount

\* an order whose sum is not a whole number of cents, so that rounding acted
C4_Witness ==
  /\ resp.op = "place_order"
  /\ resp.status = 201
  /\ Len(orders[resp.order_id].items) > 1
  /\ resp.total # SumSubtotals(orders[resp.order_id].items)

\* C5: seed on an empty catalog inserts the 3 samples and reports inserted 3;
\* seed on a non-empty catalog changes nothing and reports the count; so a
\* seed right after a seed that inserted 3 reports count 3 and leaves 3 entries
C5_SeedIdempotent ==
  [][ (seed_licenses /\ db) =>
        /\ catalog = <<>> =>
             /\ Len(catalog') = 3
             /\ resp'.inserted = 3
        /\ catalog # <<>> =>
             /\ catalog' = catalog
             /\ resp'.count = Len(catalog)
        /\ (resp.op = "seed_licenses" /\ "inserted" \in DOMAIN resp) =>
             /\ Len(catalog') = 3
             /\ resp'.count = 3 ]_vars

\* the second of two consecutive seeds has answered
C5_Witness ==
  /\ resp.op = "seed_licenses"
  /\ "count" \in DOMAIN resp
  /\ resp.count = 3
  /\ catalog = samples

\* C6: a request whose items give only sku and quantity (quantity >= 1, every
\* sku in the catalog, valid contact fields) is accepted and persisted
C6_BareItemsAccepted ==
  [][ \A order \in OrderInputs :
        ( /\ place_order(order)
          /\ db
          /\ {"contact_name", "contact_email", "items"} \subseteq DOMAIN order
          /\ ValidEmail(order.contact_email)
          /\ order.items # <<>>
          /\ \A k \in 1..Len(order.items) :
               /\ DOMAIN order.items[k] = {"sku", "quantity"}
               /\ order.items[k].quantity >= 1
               /\ find_one(catalog, order.items[k].sku) # 0 )
        => ( /\ resp'.status = 201
             /\ Len(orders') = Len(orders) + 1 ) ]_vars

\* C7: a request with a malformed contact_email is answered 422 by the schema
\* layer with no catalog lookup issued, also when it names an unknown sku
C7_BadEmailRejectedFirst ==
  [][ \A order \in OrderInputs :
        ( /\ place_order(order)
          /\ db
          /\ "contact_email" \in DOMAIN order
          /\ ~ValidEmail(order.contact_email) )
        => ( /\ resp'.status = 422
             /\ lookups' = 0 ) ]_vars

\* C8: every persisted order has a non-empty items list
C8_ItemsNonEmpty ==
  \A k \in 1..Len(orders) : orders[k].items # <<>>

\* C9: place order never writes to the catalog, adds exactly one "pending"
\* order on success and nothing on failure; no operation changes or removes
\* an existing catalog entry or order
C9_Frame ==
  [][ /\ IsPrefix(catalog, catalog')
      /\ IsPrefix(orders, orders')
      /\ resp'.op = "place_order" =>
           /\ catalog' = catalog
           /\ resp'.status = 201 =>
                /\ Len(orders') = Len(orders) + 1
                /\ orders'[Len(orders')].status = "pending"
           /\ resp'.status # 201 => orders' = orders ]_vars

\* a place order has succeeded after another one failed on a filled catalog
C9_Witness ==
  /\ resp.op = "place_order"
  /\ resp.status = 201
  /\ Len(orders) = 2
  /\ Len(catalog) > Len(samples)

\* C10: the writes do not re-check: a create that passed find_one inserts its
\* product and a seed that passed the count inserts its samples, whatever the
\* catalog holds by then
C10_CheckThenWrite ==
  [][ \A p \in Procs :
        /\ (pc[p] = "create_license_insert" /\ pc'[p] # pc[p])
             => catalog' = Append(catalog, local[p].product)
        /\ (pc[p] = "seed_licenses_insert" /\ local'[p] # local[p])
             => catalog' = Append(catalog, samples[local[p].inserted + 1]) ]_vars

\* both races have happened: six seeded entries, and two entries with the
\* same new sku
C10_Witness ==
  /\ Cardinality({i \in 1..Len(catalog) : catalog[i].sku \in SampleSkus}) = 6
  /\ Cardinality({i \in 1..Len(catalog) : catalog[i].sku = "A"}) = 2

====
